---- MODULE Spec2Model ----
(***************************************************************************)
(* The edit-queue pipeline of the desktop renderer: the Renderer Driver   *)
(* thread of DesktopController::new_on_tokio, the Host Event Loop of      *)
(* launch_with_props (window events, user events, the IPC handler) and    *)
(* the apply cycle DesktopController::try_load_ready_webviews; and the    *)
(* Command Bridge: DesktopContext (send, receiver, the window commands),  *)
(* the consumer task of DioxusDesktop::runner and dispatch_ui_commands.   *)
(***************************************************************************)
EXTENDS Integers, Sequences, FiniteSets, TLC

\* ------------------------------------------------------------------ bounds
\* Batches the renderer produces in one run (the rebuild batch included).
MaxBatches == 3
\* Batches one call of work_with_deadline returns at most.
MaxPerCycle == 2
\* Work cycles of the renderer loop in one run.
MaxCycles == 2
\* Window identifiers the platform hands out.
MaxWindows == 2
\* Update wakes pending in the event loop beyond which no further
\* "initialize" message is delivered.
MaxPending == 2
\* Scheduler messages waiting in the renderer's unbounded channel.
MaxEvents == 2
\* UI tasks calling into the DesktopContext concurrently.
MaxCallers == 2
\* CoreCommands the UI-to-scheduler channel holds: the capacity it was
\* built with.
CoreCapacity == 2
\* UICommand events of one scheduler tick.
MaxTick == 2
\* UICommands published in one run.
MaxPublished == 3
\* Window events pending in the event loop beyond which no further window
\* command is called.
MaxPosted == 1

\* --------------------------------------------------------------- constants
\* channel::<UICommand>(8): what the broadcast channel retains.
UiCapacity == 8

\* ------------------------------------------------------------- vocabulary
WindowIds == 1 .. MaxWindows
\* window.id() of the window the Init handler builds.
PrimaryWindow == 1
BatchIds == 1 .. MaxBatches

Methods == {"user_event", "initialize", "browser_open", "unknown_tag"}
Params == {"not_object", "no_href", "href_not_string", "href_string"}
\* The interaction events a "user_event" message describes in its params.
EventParams == {"click", "keydown"}
InvalidPayload == [valid |-> FALSE, method |-> "", params |-> ""]
UserEventPayload(e) == [valid |-> TRUE, method |-> "user_event", params |-> e]
Payloads ==
    {InvalidPayload, UserEventPayload("click")}
        \cup {[valid |-> TRUE, method |-> m, params |-> "not_object"] :
                m \in {"initialize", "unknown_tag"}}
        \cup {[valid |-> TRUE, method |-> "browser_open", params |-> p] : p \in Params}
WindowEvents == {"CloseRequested", "Destroyed", "Resized", "Moved"}
None == [none |-> TRUE]

\* The tasks of the UI runtime that hold a clone of the DesktopContext.
CallerIds == 1 .. MaxCallers
CoreCommands == {"c1", "c2"}
UICommands == {"u1", "u2"}
\* The receiver handles the UI side can hold.
SubscriberIds == {"s1", "s2"}
\* The window-management methods of DesktopContext.
WindowCommands ==
    {"drag", "set_minimized", "set_maximized", "toggle_maximized", "set_visible",
     "close", "focus", "set_fullscreen", "set_resizable", "set_always_on_top",
     "set_cursor_visible", "set_cursor_grab", "set_title", "set_decorations",
     "devtool", "eval"}

\* ---------------------------------------------------------------- helpers
Range(s) == {s[i] : i \in 1 .. Len(s)}
Front(s) == SubSeq(s, 1, Len(s) - 1)
Last(s) == s[Len(s)]
IsPrefix(s, t) == Len(s) <= Len(t) /\ s = SubSeq(t, 1, Len(s))
Reverse(s) == [i \in 1 .. Len(s) |-> s[Len(s) + 1 - i]]
Count(s, x) == Cardinality({i \in 1 .. Len(s) : s[i] = x})

VARIABLES
    rendPc,            \* position of the renderer thread
    produced,          \* batches the VirtualDom has produced so far
    cycles,            \* work cycles started
    muts,              \* the Vec work_with_deadline returned, not yet pushed
    rend_edit,         \* the batch popped from muts, being pushed
    pending_edits,     \* the Mutation Queue (Vec<String>)
    lock,              \* owner of the Mutex around pending_edits
    is_ready,          \* the Readiness Gate
    webviews,          \* the Window Registry (keys of the HashMap)
    quit_app_on_close, \* exit-on-last-close policy
    control_flow,      \* the event loop's ControlFlow
    hostPc,            \* position of the Host Event Loop
    view,              \* the webview the running apply cycle picked, or 0
    proxy_events,      \* user events posted through the EventLoopProxy
    scheduler_msgs,    \* the renderer's unbounded SchedulerMsg channel
    evaluated,         \* scripts handed to evaluate_script, in call order
    ipc_out,           \* what the step just taken logged, and whether it opened a browser
    pushed,            \* every batch pushed so far, in push order
    snapshot,          \* the queue when the running apply cycle took the lock
    drained,           \* batches the running apply cycle has evaluated
    ready_queue,       \* the queue at the moment the gate flipped
    wake_owed,         \* the renderer has pushed since the last wake it posted
    core_channel,      \* the UI-to-scheduler channel of CoreCommand
    core_closed,       \* the receiving side of core_channel has been dropped
    callers,           \* the UI tasks that hold a DesktopContext
    ctx_out,           \* what the DesktopContext call just made did
    ui_buffer,         \* UICommands retained on the scheduler-to-UI channel
    subscribers,       \* the receivers handed out for the scheduler-to-UI channel
    published,         \* every UICommand the channel accepted, in send order
    tick_events,       \* the events dispatch_ui_commands is iterating
    tick_results       \* the results of tx.send so far in this tick

vars ==
    << rendPc, produced, cycles, muts, rend_edit, pending_edits, lock, is_ready,
       webviews, quit_app_on_close, control_flow, hostPc, view, proxy_events,
       scheduler_msgs, evaluated, ipc_out, pushed,
       snapshot, drained, ready_queue, wake_owed, core_channel, core_closed, callers,
       ctx_out, ui_buffer, subscribers, published, tick_events, tick_results >>

rendVars == << rendPc, produced, cycles, muts, rend_edit >>
hostVars == << webviews, quit_app_on_close, control_flow, hostPc, view >>
histVars == << snapshot, drained, ready_queue, wake_owed >>
coreVars == << core_channel, core_closed >>
uiVars == << ui_buffer, subscribers, published, tick_events, tick_results >>
bridgeVars == << coreVars, callers, ctx_out, uiVars >>
\* What the renderer and the apply cycle work on; proxy_events, hostPc and
\* control_flow apart.
pipeVars ==
    << rendVars, pending_edits, lock, is_ready, webviews, quit_app_on_close, view,
       scheduler_msgs, evaluated, ipc_out, pushed, histVars >>

\* ------------------------------------------------------------ conversions
\* serde_json::to_string(&edits.edits): the batch as a JSON string.
to_string(b) == [json |-> b]
\* format!("window.interpreter.handleEdits({})", edit)
handleEdits(edit) == [call |-> "window.interpreter.handleEdits", arg |-> edit]
\* The batch a queued string or an evaluated script carries.
BatchOfEdit(e) == e.json
BatchOfScript(s) == s.arg.json
QueueBatches == [i \in 1 .. Len(pending_edits) |-> BatchOfEdit(pending_edits[i])]
EvaluatedBatches == [i \in 1 .. Len(evaluated) |-> BatchOfScript(evaluated[i])]

\* The process runs: the event loop has neither exited nor panicked.
Alive == hostPc \notin {"exited", "panicked"}

NoIpcOut == [log |-> <<>>, opened |-> FALSE]
NoCtxOut == [call |-> "", by |-> 0, arg |-> "", delivered |-> FALSE]
\* A receiver handle that has not been handed out.
NotSubscribed == [on |-> FALSE, joined |-> 0, received |-> <<>>]

\* ------------------------------------------------------------------- Init
InitWith(ws, quit) ==
    /\ rendPc = "rebuild"
    /\ produced = 0
    /\ cycles = 0
    /\ muts = <<>>
    /\ rend_edit = None
    /\ pending_edits = <<>>
    /\ lock = "free"
    /\ is_ready = FALSE
    /\ webviews = ws
    /\ quit_app_on_close = quit
    /\ control_flow = "Wait"
    /\ hostPc = "init"
    /\ view = 0
    /\ proxy_events = <<>>
    /\ scheduler_msgs = <<>>
    /\ evaluated = <<>>
    /\ ipc_out = NoIpcOut
    /\ pushed = <<>>
    /\ snapshot = <<>>
    /\ drained = <<>>
    /\ ready_queue = <<>>
    /\ wake_owed = FALSE
    /\ core_channel = <<>>
    /\ core_closed = FALSE
    /\ callers = [p \in CallerIds |-> "running"]
    /\ ctx_out = NoCtxOut
    /\ ui_buffer = <<>>
    /\ subscribers = [s \in SubscriberIds |-> NotSubscribed]
    /\ published = <<>>
    /\ tick_events = <<>>
    /\ tick_results = <<>>

\* DesktopController::new_on_tokio: the state after construction.
Init == InitWith({}, TRUE)

\* A controller whose registry already holds other windows and whose
\* exit-on-last-close policy is either value: the inputs of close_window.
InitRegistry ==
    \E ws \in SUBSET (WindowIds \ {PrimaryWindow}), quit \in BOOLEAN : InitWith(ws, quit)

\* ------------------------------------------------------- Renderer Driver
\* The wake the renderer posts after each work cycle:
\* proxy.send_event(UserEvent::WindowEvent(Update)).
cycle_wake_dropped == <<>>
cycle_wake == <<"Update">>

\* The wake the renderer posts after the initial render, once the batch of
\* dom.rebuild() is in the queue.
rebuild_wake_dropped == <<>>
rebuild_wake == <<"Update">>

\* let edits = dom.rebuild();
Rebuild ==
    /\ Alive
    /\ rendPc = "rebuild"
    /\ produced' = produced + 1
    /\ rend_edit' = to_string(produced + 1)
    /\ rendPc' = "lock_rebuild"
    /\ ipc_out' = NoIpcOut
    /\ UNCHANGED << bridgeVars, cycles, muts, pending_edits, lock, is_ready, hostVars,
                    proxy_events, scheduler_msgs, evaluated, pushed, histVars >>

\* edit_queue.lock().unwrap(): the guard of the push statement is taken.
RendererLock(at, to) ==
    /\ Alive
    /\ rendPc = at
    /\ lock = "free"
    /\ lock' = "renderer"
    /\ rendPc' = to
    /\ ipc_out' = NoIpcOut
    /\ UNCHANGED << bridgeVars, produced, cycles, muts, rend_edit, pending_edits, is_ready,
                    hostVars, proxy_events, scheduler_msgs, evaluated, pushed, histVars >>

\* The guard edit_queue.lock().unwrap() is a temporary of the push
\* statement: it is dropped, and the Mutex released, at the end of it.
guard_kept == "renderer"
guard_dropped == "free"

\* .push(serde_json::to_string(..)); the guard is dropped at the end of the
\* statement.
RendererPush(at, to) ==
    /\ Alive
    /\ rendPc = at
    /\ lock = "renderer"
    /\ pending_edits' = Append(pending_edits, rend_edit)
    /\ pushed' = Append(pushed, BatchOfEdit(rend_edit))
    /\ lock' = guard_dropped
    /\ rend_edit' = None
    /\ rendPc' = to
    /\ wake_owed' = TRUE
    /\ ipc_out' = NoIpcOut
    /\ UNCHANGED << bridgeVars, produced, cycles, muts, is_ready, hostVars, proxy_events,
                    scheduler_msgs, evaluated, snapshot, drained, ready_queue >>

\* let _ = proxy.send_event(UserEvent::WindowEvent(UserWindowEvent::Update));
RendererSend(at, wake) ==
    /\ Alive
    /\ rendPc = at
    /\ proxy_events' = proxy_events \o wake
    /\ rendPc' = "wait"
    /\ wake_owed' = FALSE
    /\ ipc_out' = NoIpcOut
    /\ UNCHANGED << bridgeVars, produced, cycles, muts, rend_edit, pending_edits, lock,
                    is_ready, hostVars, scheduler_msgs, evaluated, pushed, snapshot,
                    drained, ready_queue >>

LockRebuild == RendererLock("lock_rebuild", "push_rebuild")
PushRebuild == RendererPush("push_rebuild", "send_rebuild")
SendRebuild == RendererSend("send_rebuild", rebuild_wake)

\* dom.wait_for_work().await returns: a scheduler message is waiting, or the
\* dom has work of its own (a timer, a task, a dirty scope).
WaitForWork ==
    /\ Alive
    /\ rendPc = "wait"
    /\ cycles < MaxCycles
    /\ cycles' = cycles + 1
    /\ rendPc' = "work"
    /\ ipc_out' = NoIpcOut
    /\ UNCHANGED << bridgeVars, produced, muts, rend_edit, pending_edits, lock, is_ready,
                    hostVars, proxy_events, scheduler_msgs, evaluated, pushed, histVars >>

\* let mut muts = dom.work_with_deadline(|| false): the waiting messages are
\* taken and the cycle's batches b1..bk are returned in computed order.
WorkWithDeadline ==
    /\ Alive
    /\ rendPc = "work"
    /\ \E k \in 0 .. MaxPerCycle :
        /\ produced + k <= MaxBatches
        /\ muts' = [i \in 1 .. k |-> produced + i]
        /\ produced' = produced + k
    /\ scheduler_msgs' = <<>>
    /\ rendPc' = "pop"
    /\ ipc_out' = NoIpcOut
    /\ UNCHANGED << bridgeVars, cycles, rend_edit, pending_edits, lock, is_ready, hostVars,
                    proxy_events, evaluated, pushed, histVars >>

\* muts.pop() returns None, which ends the while let loop, when the Vec is
\* empty.
muts_done_early(m) == Len(m) <= 1
muts_done(m) == m = <<>>

\* while let Some(edit) = muts.pop() { edit_queue.lock().unwrap() ...
\* Vec::pop takes the last element; None ends the loop.
MutsPop ==
    /\ Alive
    /\ rendPc = "pop"
    /\ IF muts_done(muts)
       THEN /\ rendPc' = "send"
            /\ UNCHANGED << muts, rend_edit, lock >>
       ELSE /\ lock = "free"
            /\ lock' = "renderer"
            /\ rend_edit' = to_string(Last(muts))
            /\ muts' = Front(muts)
            /\ rendPc' = "push"
    /\ ipc_out' = NoIpcOut
    /\ UNCHANGED << bridgeVars, produced, cycles, pending_edits, is_ready, hostVars,
                    proxy_events, scheduler_msgs, evaluated, pushed, histVars >>

PushEdit == RendererPush("push", "pop")
SendUpdate == RendererSend("send", cycle_wake)

Renderer ==
    \/ Rebuild
    \/ LockRebuild
    \/ PushRebuild
    \/ SendRebuild
    \/ WaitForWork
    \/ WorkWithDeadline
    \/ MutsPop
    \/ PushEdit
    \/ SendUpdate

\* ------------------------------------------------------- Host Event Loop
\* Event::NewEvents(StartCause::Init): the window and its webview are built
\* and registered.
StartInit ==
    /\ hostPc = "init"
    /\ control_flow' = "Wait"
    /\ webviews' = webviews \cup {PrimaryWindow}
    /\ hostPc' = "idle"
    /\ ipc_out' = NoIpcOut
    /\ UNCHANGED << bridgeVars, rendVars, pending_edits, lock, is_ready, quit_app_on_close,
                    view, proxy_events, scheduler_msgs, evaluated, pushed, histVars >>

\* self.webviews.remove(&window_id)
close_window_remove(ws, id) == ws \ {id}

\* if self.webviews.is_empty() && self.quit_app_on_close
close_window_exits_any(ws, quit) == ws = {}
close_window_exits(ws, quit) == ws = {} /\ quit

\* The control flow the closure leaves after a window event: set to Wait on
\* entry, then the arm of the event.
window_control_flow(ev, ws, quit) ==
    CASE ev = "CloseRequested" -> "Exit"
      [] ev = "Destroyed" -> IF close_window_exits(ws, quit) THEN "Exit" ELSE "Wait"
      [] OTHER -> "Wait"

\* Event::WindowEvent { event, window_id, .. }
WindowEvent(ev, id) ==
    /\ hostPc = "idle"
    /\ webviews' = IF ev = "Destroyed" THEN close_window_remove(webviews, id) ELSE webviews
    /\ control_flow' = window_control_flow(ev, webviews', quit_app_on_close)
    /\ hostPc' = IF control_flow' = "Exit" THEN "exited" ELSE "idle"
    /\ ipc_out' = NoIpcOut
    /\ UNCHANGED << bridgeVars, rendVars, pending_edits, lock, is_ready, quit_app_on_close,
                    view, proxy_events, scheduler_msgs, evaluated, pushed, histVars >>

\* ---------------------------------------------------------- IPC Dispatcher
\* parse_ipc_message(&payload): the message of a well-formed payload.
parse_ipc_message(payload) ==
    IF payload.valid THEN [method |-> payload.method, params |-> payload.params] ELSE None

\* "initialize" => is_ready.store(true, Relaxed); no other arm writes the gate.
ipc_is_ready_toggled(method, ready) == method = "initialize"
ipc_is_ready(method, ready) == IF method = "initialize" THEN TRUE ELSE ready

\* "initialize" => let _ = proxy.send_event(UserWindowEvent::Update);
ipc_wake_missing(method) == <<>>
ipc_wake(method) == IF method = "initialize" THEN <<"Update">> ELSE <<>>

\* trigger_from_serialized(message.params()): the UserEvent a well-formed
\* event description deserializes to.
trigger_from_serialized(params) == [name |-> params]

\* "user_event" => sender.unbounded_send(SchedulerMsg::Event(event)).unwrap();
\* the message goes to the tail of the renderer's channel.
ipc_scheduler_msg_first(msgs, method, params) ==
    IF method = "user_event"
    THEN <<[msg |-> "Event", event |-> trigger_from_serialized(params)]>> \o msgs
    ELSE msgs
ipc_scheduler_msg(msgs, method, params) ==
    IF method = "user_event"
    THEN Append(msgs, [msg |-> "Event", event |-> trigger_from_serialized(params)])
    ELSE msgs

\* .unwrap_or_else(|| log::warn!("invalid IPC message received"))
invalid_log_silent == <<>>
invalid_log == <<"warn: invalid IPC message received">>

\* The "browser_open" arm: what it logs, whether webbrowser::open ran, and
\* whether an unwrap of it panicked.
browser_open(params, open_ok) ==
    CASE params = "href_string" ->
            [log |-> IF open_ok THEN <<>> ELSE <<"error: Open Browser error">>,
             opened |-> TRUE, panic |-> FALSE]
      [] params = "href_not_string" -> [log |-> <<>>, opened |-> FALSE, panic |-> TRUE]
      [] OTHER -> [log |-> <<>>, opened |-> FALSE, panic |-> FALSE]

\* with_ipc_handler(move |_window, payload| ...), run on the event loop.
IpcHandler(payload, open_ok) ==
    /\ hostPc = "idle"
    /\ LET message == parse_ipc_message(payload) IN
        IF message = None
        THEN /\ ipc_out' = [log |-> invalid_log, opened |-> FALSE]
             /\ UNCHANGED << is_ready, proxy_events, scheduler_msgs, hostPc, ready_queue >>
        ELSE LET open == IF message.method = "browser_open"
                         THEN browser_open(message.params, open_ok)
                         ELSE [log |-> <<>>, opened |-> FALSE, panic |-> FALSE]
             IN
             /\ Len(proxy_events \o ipc_wake(message.method)) <= MaxPending
             /\ Len(ipc_scheduler_msg(scheduler_msgs, message.method, message.params)) <= MaxEvents
             /\ is_ready' = ipc_is_ready(message.method, is_ready)
             /\ proxy_events' = proxy_events \o ipc_wake(message.method)
             /\ scheduler_msgs' = ipc_scheduler_msg(scheduler_msgs, message.method, message.params)
             /\ ipc_out' = [log |-> open.log, opened |-> open.opened]
             /\ hostPc' = IF open.panic THEN "panicked" ELSE "idle"
             /\ ready_queue' = IF is_ready' /\ ~is_ready THEN QueueBatches ELSE ready_queue
    /\ UNCHANGED << bridgeVars, rendVars, pending_edits, lock, webviews, quit_app_on_close,
                    control_flow, view, evaluated, pushed, snapshot,
                    drained, wake_owed >>

\* ------------------------------------------------------------ apply cycle
\* if self.is_ready.load(Ordering::Relaxed)
gate_ignored(ready) == TRUE
gate_open(ready) == ready

\* desktop_context::handler(user_event, &mut desktop, control_flow, ..):
\* an Update wake runs the apply cycle.
handler(user_event) == IF user_event = "Update" THEN "try_load_ready_webviews" ELSE "other"

\* Event::UserEvent(user_event): the wake is taken from the event loop and
\* try_load_ready_webviews reads the gate.
HandleUserEvent ==
    /\ hostPc = "idle"
    /\ proxy_events # <<>>
    /\ proxy_events' = Tail(proxy_events)
    /\ control_flow' = "Wait"
    /\ hostPc' = IF handler(Head(proxy_events)) = "try_load_ready_webviews" /\ gate_open(is_ready)
                 THEN "lock"
                 ELSE "idle"
    /\ ipc_out' = NoIpcOut
    /\ UNCHANGED << bridgeVars, rendVars, pending_edits, lock, is_ready, webviews,
                    quit_app_on_close, view, scheduler_msgs, evaluated, pushed, histVars >>

\* let mut queue = self.pending_edits.lock().unwrap();
\* let (_id, view) = self.webviews.iter_mut().next().unwrap();
HostLock ==
    /\ hostPc = "lock"
    /\ lock = "free"
    /\ lock' = "host"
    /\ snapshot' = QueueBatches
    /\ drained' = <<>>
    /\ IF webviews = {}
       THEN hostPc' = "panicked" /\ view' = view
       ELSE hostPc' = "pop" /\ view' \in webviews
    /\ ipc_out' = NoIpcOut
    /\ UNCHANGED << bridgeVars, rendVars, pending_edits, is_ready, webviews, quit_app_on_close,
                    control_flow, proxy_events, scheduler_msgs, evaluated, pushed, ready_queue,
                    wake_owed >>

\* queue.pop(): Vec::pop removes and returns the last element.
vec_pop(q) == Last(q)
vec_rest(q) == Front(q)

\* while let Some(edit) = queue.pop()
loop_once(q, done) == q # <<>> /\ done = <<>>
loop_continues(q, done) == q # <<>>

\* One turn of the loop: the popped edit is handed to evaluate_script; with
\* the queue empty the loop ends and the guard is dropped.
HostPop ==
    /\ hostPc = "pop"
    /\ IF loop_continues(pending_edits, drained)
       THEN /\ pending_edits' = vec_rest(pending_edits)
            /\ evaluated' = Append(evaluated, handleEdits(vec_pop(pending_edits)))
            /\ drained' = Append(drained, BatchOfEdit(vec_pop(pending_edits)))
            /\ hostPc' = "eval"
            /\ UNCHANGED << lock, view, snapshot >>
       ELSE /\ lock' = "free"
            /\ hostPc' = "idle"
            /\ view' = 0
            /\ snapshot' = <<>>
            /\ drained' = <<>>
            /\ UNCHANGED << pending_edits, evaluated >>
    /\ ipc_out' = NoIpcOut
    /\ UNCHANGED << bridgeVars, rendVars, is_ready, webviews, quit_app_on_close, control_flow,
                    proxy_events, scheduler_msgs, pushed, ready_queue, wake_owed >>

\* view.evaluate_script(..).unwrap() returns: Ok goes on with the loop, Err
\* panics with the queue's guard held.
EvalReturn(ok) ==
    /\ hostPc = "eval"
    /\ hostPc' = IF ok THEN "pop" ELSE "panicked"
    /\ ipc_out' = NoIpcOut
    /\ UNCHANGED << bridgeVars, rendVars, pending_edits, lock, is_ready, webviews,
                    quit_app_on_close, control_flow, view, proxy_events,
                    scheduler_msgs, evaluated, pushed,
                    histVars >>

\* ------------------------------------------------------------------ Next
Next ==
    \/ Renderer
    \/ StartInit
    \/ \E ev \in WindowEvents, id \in WindowIds : WindowEvent(ev, id)
    \/ \E payload \in Payloads, open_ok \in BOOLEAN : IpcHandler(payload, open_ok)
    \/ HandleUserEvent
    \/ HostLock
    \/ HostPop
    \/ \E ok \in BOOLEAN : EvalReturn(ok)

Spec == Init /\ [][Next]_vars

\* The event loop over every registry and policy close_window can meet; of
\* the IPC messages only the "initialize" handshake is delivered.
InitializePayload == [valid |-> TRUE, method |-> "initialize", params |-> "not_object"]

NextRegistry ==
    \/ Renderer
    \/ StartInit
    \/ \E ev \in WindowEvents, id \in WindowIds : WindowEvent(ev, id)
    \/ IpcHandler(InitializePayload, TRUE)
    \/ HandleUserEvent
    \/ HostLock
    \/ HostPop
    \/ \E ok \in BOOLEAN : EvalReturn(ok)

SpecRegistry == InitRegistry /\ [][NextRegistry]_vars

\* ------------------------------------------------------- steps, observed
\* The step takes an Update wake from the event loop.
UpdateWakeTaken ==
    /\ proxy_events # <<>>
    /\ Head(proxy_events) = "Update"
    /\ proxy_events' = Tail(proxy_events)

\* The step dispatches an "initialize" IPC message.
InitializeDispatched == \E ok \in BOOLEAN : IpcHandler(InitializePayload, ok)

\* ----------------------------------------------------------------- claims

\* C1: within one drain, try_load_ready_webviews hands the batches to
\* evaluate_script in the order they were pushed: what the running apply
\* cycle has evaluated is a prefix, in push order, of what was queued when
\* it took the lock.
C1_DrainInPushOrder == IsPrefix(drained, snapshot)

\* C2: over the whole run the batches evaluated on the surface are a prefix
\* of the batches in the order the renderer produced them (1, 2, 3, ...).
C2_AppliedInProducedOrder ==
    \A i \in 1 .. Len(EvaluatedBatches) : EvaluatedBatches[i] = i

\* C3: while the gate is NotReady nothing is evaluated and an Update wake
\* changes neither the queue nor the lock; when the gate flips every batch
\* pushed so far is in the queue; no batch is evaluated twice, and when the
\* first apply cycle after the flip ends each batch queued at the flip has
\* been evaluated exactly once.
C3_PreReadyBuffering ==
    /\ [](~is_ready => evaluated = <<>>)
    /\ [][~is_ready /\ UpdateWakeTaken
            => /\ UNCHANGED << pending_edits, evaluated, lock >>
               /\ hostPc' = "idle"]_vars
    /\ [][~is_ready /\ is_ready'
            => /\ Len(pending_edits') = Len(pushed')
               /\ Range(QueueBatches') = Range(pushed')
               /\ ready_queue' = QueueBatches']_vars
    /\ [](\A b \in BatchIds : Count(EvaluatedBatches, b) <= 1)
    /\ [][lock = "host" /\ lock' = "free"
            => \A b \in Range(ready_queue) : Count(EvaluatedBatches', b) = 1]_vars

\* C3 witness: two batches were queued when the gate flipped and both have
\* been evaluated once since.
C3_Witness ==
    /\ is_ready
    /\ Len(ready_queue) >= 2
    /\ hostPc = "idle"
    /\ \A b \in Range(ready_queue) : Count(EvaluatedBatches, b) = 1

\* C4: the gate starts false, turns true only in a step that dispatches an
\* "initialize" IPC message, and no step turns it back to false.
C4_GateLatches ==
    /\ ~is_ready
    /\ [][~is_ready /\ is_ready' => InitializeDispatched]_vars
    /\ [][is_ready => is_ready']_vars

\* C4 witness: the gate is Ready, batches were applied, and a later IPC
\* payload was rejected as invalid.
C4_Witness ==
    /\ is_ready
    /\ evaluated # <<>>
    /\ ipc_out.log # <<>>

\* ---------------------------------------------------------------- liveness
\* The IPC payloads whose dispatch returns normally and that the apply
\* protocol reads: interaction events, which only join the renderer's
\* channel, are left out.
LivePayloads ==
    {p \in Payloads : p.params # "href_not_string" /\ p.method # "user_event"}

\* The run the eventual-delivery claim is about: no window is closed or
\* destroyed, no script evaluation fails and no IPC dispatch panics.
NextLive ==
    \/ Renderer
    \/ StartInit
    \/ \E ev \in {"Resized", "Moved"}, id \in WindowIds : WindowEvent(ev, id)
    \/ \E payload \in LivePayloads, open_ok \in BOOLEAN : IpcHandler(payload, open_ok)
    \/ HandleUserEvent
    \/ HostLock
    \/ HostPop
    \/ EvalReturn(TRUE)

\* The renderer thread runs whenever it can (waiting for work apart: work
\* need not arrive), the event loop takes every posted event and finishes
\* its apply cycle, and the surface sends "initialize".
LiveSpec ==
    /\ Init
    /\ [][NextLive]_vars
    /\ WF_vars(Rebuild \/ LockRebuild \/ PushRebuild \/ SendRebuild)
    /\ WF_vars(WorkWithDeadline \/ MutsPop \/ PushEdit \/ SendUpdate)
    /\ WF_vars(StartInit)
    /\ WF_vars(HandleUserEvent)
    /\ WF_vars(HostLock \/ HostPop \/ EvalReturn(TRUE))
    /\ WF_vars(~is_ready /\ InitializeDispatched)

\* The same run with the renderer, moreover, not starved of the queue's
\* lock: a thread waiting for a Mutex that is released again and again
\* gets it.
LiveLockSpec ==
    /\ Init
    /\ [][NextLive]_vars
    /\ WF_vars(Rebuild \/ LockRebuild \/ PushRebuild \/ SendRebuild)
    /\ WF_vars(WorkWithDeadline \/ MutsPop \/ PushEdit \/ SendUpdate)
    /\ WF_vars(StartInit)
    /\ WF_vars(HandleUserEvent)
    /\ WF_vars(HostLock \/ HostPop \/ EvalReturn(TRUE))
    /\ WF_vars(~is_ready /\ InitializeDispatched)
    /\ SF_vars(LockRebuild)
    /\ SF_vars(MutsPop)

C6_DrainedOnlyByApplyCycle ==
    /\ [](hostPc # "panicked"
            => \A b \in Range(pushed) :
                 Count(QueueBatches, b) + Count(EvaluatedBatches, b) = 1)
    /\ [][Len(pending_edits') < Len(pending_edits)
            => /\ hostPc = "pop"
               /\ lock = "host"
               /\ pending_edits' = Front(pending_edits)
               /\ evaluated' = Append(evaluated, handleEdits(Last(pending_edits)))]_vars
    /\ [][lock = "host" /\ lock' = "free"
            => /\ pending_edits' = <<>>
               /\ Range(snapshot) \subseteq Range(EvaluatedBatches')]_vars

\* C6 witness: an apply cycle evaluated two batches and released the lock
\* on an empty queue.
C6_Witness ==
    /\ hostPc = "idle"
    /\ lock = "free"
    /\ pending_edits = <<>>
    /\ Len(evaluated) >= 2

\* C7: a step that dispatches "initialize" leaves the gate Ready and appends
\* one Update wake to the event loop; so once the gate is Ready with the
\* event loop idle and no wake pending, the batches queued at the flip have
\* been evaluated, whatever the renderer did since.
C7_InitializePostsWake ==
    /\ [][InitializeDispatched
            => is_ready' /\ proxy_events' = Append(proxy_events, "Update")]_vars
    /\ [](is_ready /\ hostPc = "idle" /\ proxy_events = <<>>
            => Range(ready_queue) \subseteq Range(EvaluatedBatches))

\* C7 witness: the rebuild batch was queued at the flip and has been
\* evaluated while the renderer has not yet posted its first wake.
C7_Witness ==
    /\ is_ready
    /\ rendPc = "send_rebuild"
    /\ ready_queue # <<>>
    /\ Range(ready_queue) \subseteq Range(EvaluatedBatches)

\* C8: a Destroyed event for window id, which runs close_window(id), removes
\* id from the registry and leaves the control flow at Exit, ending the
\* loop, exactly when the registry is then empty and quit_app_on_close is
\* set.
C8_CloseWindowExitPolicy ==
    [][\A id \in WindowIds :
         WindowEvent("Destroyed", id)
            => /\ webviews' = webviews \ {id}
               /\ control_flow' = "Exit" <=> (webviews' = {} /\ quit_app_on_close)
               /\ hostPc' = "exited" <=> control_flow' = "Exit"]_vars

\* C8 witness: under exit-on-last-close the primary window was destroyed
\* while another window stayed registered, and the loop still runs.
C8_Witness ==
    /\ quit_app_on_close
    /\ hostPc = "idle"
    /\ control_flow = "Wait"
    /\ webviews # {}
    /\ PrimaryWindow \notin webviews

\* C9: the event loop sets the exit control flow only in a step in which
\* the registry has just become empty under exit-on-last-close.
C9_ExitOnlyOnLastClose ==
    [][control_flow' = "Exit" /\ control_flow # "Exit"
         => webviews # {} /\ webviews' = {} /\ quit_app_on_close]_vars

\* C10: dispatching an invalid payload, or a valid one with an unknown
\* method, changes neither the gate, the registry, the queue, the scheduler
\* channel nor the pending wakes and returns to the event loop; the invalid
\* payload logs exactly one warning and the unknown method logs nothing.
UnknownPayload == [valid |-> TRUE, method |-> "unknown_tag", params |-> "not_object"]

C10_RejectedPayloadChangesNothing ==
    [][\A payload \in {InvalidPayload, UnknownPayload}, open_ok \in BOOLEAN :
         IpcHandler(payload, open_ok)
            => /\ UNCHANGED << is_ready, webviews, pending_edits, scheduler_msgs,
                               proxy_events, lock, evaluated, control_flow >>
               /\ hostPc' = "idle"
               /\ ~ipc_out'.opened
               /\ Len(ipc_out'.log) = (IF payload.valid THEN 0 ELSE 1)]_vars

\* C10 witness: an invalid payload was dispatched, and its one warning
\* logged, with the gate Ready, a batch queued and a wake pending.
C10_Witness ==
    /\ ipc_out.log = invalid_log
    /\ Len(ipc_out.log) = 1
    /\ is_ready
    /\ pending_edits # <<>>
    /\ proxy_events # <<>>
    /\ hostPc = "idle"

\* C11: dispatching a "browser_open" message whose params are not an object,
\* have no "href" field, or carry an "href" that is not a string opens no
\* browser, logs nothing, changes neither the gate, the registry, the queue,
\* the scheduler channel nor the pending wakes, and returns to the event
\* loop.
MalformedOpenPayloads ==
    {[valid |-> TRUE, method |-> "browser_open", params |-> p] :
        p \in {"not_object", "no_href", "href_not_string"}}

C11_MalformedBrowserOpenIgnored ==
    [][\A payload \in MalformedOpenPayloads, open_ok \in BOOLEAN :
         IpcHandler(payload, open_ok)
            => /\ UNCHANGED << is_ready, webviews, pending_edits, scheduler_msgs,
                               proxy_events, lock, evaluated, control_flow >>
               /\ hostPc' = "idle"
               /\ ~ipc_out'.opened
               /\ ipc_out'.log = <<>>]_vars

\* ------------------------------------------------------- event injection
\* The event loop with the surface sending interaction events of either
\* kind and the "initialize" handshake; windows are destroyed, no script
\* evaluation fails.
InjectPayloads == {UserEventPayload(e) : e \in EventParams} \cup {InitializePayload}

NextInject ==
    \/ Renderer
    \/ StartInit
    \/ \E id \in WindowIds : WindowEvent("Destroyed", id)
    \/ \E payload \in InjectPayloads : IpcHandler(payload, TRUE)
    \/ HandleUserEvent
    \/ HostLock
    \/ HostPop
    \/ EvalReturn(TRUE)

\* The controller as constructed, under either exit-on-last-close policy.
InitInject == \E quit \in BOOLEAN : InitWith({}, quit)

SpecInject == InitInject /\ [][NextInject]_vars

\* C12: a step that dispatches a "user_event" message appends the event it
\* describes, once, at the tail of the renderer's channel and changes
\* neither the gate, the registry, the Mutation Queue nor the event loop's
\* position; no other step adds to the channel or reorders it: the channel
\* otherwise only stays as it is or is taken whole by work_with_deadline.
C12_UserEventInjectedInOrder ==
    /\ [][\A e \in EventParams :
            IpcHandler(UserEventPayload(e), TRUE)
               => /\ scheduler_msgs'
                       = Append(scheduler_msgs,
                                [msg |-> "Event", event |-> trigger_from_serialized(e)])
                  /\ UNCHANGED << is_ready, webviews, pending_edits, lock,
                                  proxy_events, evaluated, control_flow >>
                  /\ hostPc' = "idle"]_vars
    /\ [][scheduler_msgs' # scheduler_msgs
            => \/ \E e \in EventParams : IpcHandler(UserEventPayload(e), TRUE)
               \/ rendPc = "work" /\ scheduler_msgs' = <<>>]_vars

\* C12 witness: two different events wait in the channel in dispatch order
\* while the gate is NotReady and the registry is empty.
C12_Witness ==
    /\ Len(scheduler_msgs) = 2
    /\ scheduler_msgs[1].event = trigger_from_serialized("keydown")
    /\ scheduler_msgs[2].event = trigger_from_serialized("click")
    /\ ~is_ready
    /\ webviews = {}
    /\ hostPc = "idle"

\* C13: when evaluate_script fails during an apply cycle the cycle ends
\* there: the event loop is back at idle and goes on taking events, the
\* queue's lock is free so the renderer can push, the failed batch is not
\* put back, and the batches not yet popped stay in the queue.
C13_EvalFailureAbortsOnlyCycle ==
    [][EvalReturn(FALSE)
         => /\ hostPc' = "idle"
            /\ lock' = "free"
            /\ UNCHANGED << pending_edits, evaluated >>]_vars

\* --------------------------------------------------------- Command Bridge
\* EventLoopProxy::send_event(event): the event joins the loop's queue, or
\* Err(EventLoopClosed) once the loop no longer exists.
send_event(events, alive, event) == IF alive THEN Append(events, event) ELSE events

\* UserWindowEvent::BevyUpdate(cmd)
BevyUpdate(cmd) == "BevyUpdate:" \o cmd

\* self.channel.0.try_send(cmd): Ok with cmd at the tail of the channel,
\* or Err when the channel is closed (no receiver left) or full.
try_send_lossy(channel, closed, cmd) ==
    IF closed
    THEN [ok |-> FALSE, channel |-> channel]
    ELSE IF Len(channel) >= CoreCapacity
         THEN [ok |-> TRUE, channel |-> channel]
         ELSE [ok |-> TRUE, channel |-> Append(channel, cmd)]
try_send(channel, closed, cmd) ==
    IF closed \/ Len(channel) >= CoreCapacity
    THEN [ok |-> FALSE, channel |-> channel]
    ELSE [ok |-> TRUE, channel |-> Append(channel, cmd)]

\* .expect("Failed to send CoreCommand"): an Err panics the calling task.
expect(ok) == IF ok THEN "running" ELSE "panicked"

\* DesktopContext::send(cmd), called by UI task p. The tasks of the UI
\* runtime run until the process is torn down, also after the event loop
\* has ended.
ContextSend(p, cmd) ==
    /\ callers[p] = "running"
    /\ LET sent == try_send(core_channel, core_closed, cmd) IN
        /\ core_channel' = sent.channel
        /\ callers' = [callers EXCEPT ![p] = expect(sent.ok)]
        /\ ctx_out' = [call |-> "send", by |-> p, arg |-> cmd, delivered |-> sent.ok]
    /\ UNCHANGED << pipeVars, proxy_events, hostPc, control_flow, core_closed, uiVars >>

\* The consumer task of runner: while let Some(cmd) = core_rx.next().await
\* { let _res = proxy_clone.send_event(BevyUpdate(cmd)); } takes the oldest
\* command and posts it; the result of send_event is discarded.
ConsumerForward ==
    /\ ~core_closed
    /\ core_channel # <<>>
    /\ Len(proxy_events) < MaxPending
    /\ core_channel' = Tail(core_channel)
    /\ proxy_events' = send_event(proxy_events, Alive, BevyUpdate(Head(core_channel)))
    /\ ctx_out' = NoCtxOut
    /\ UNCHANGED << pipeVars, hostPc, control_flow, core_closed, callers, uiVars >>

\* The runtime that runs the consumer task is a local of runner: it goes,
\* and core_rx with it, when the event loop's thread is torn down.
ConsumerDropped ==
    /\ ~Alive
    /\ ~core_closed
    /\ core_closed' = TRUE
    /\ ctx_out' = NoCtxOut
    /\ UNCHANGED << pipeVars, proxy_events, hostPc, control_flow, core_channel,
                    callers, uiVars >>

\* The IPC payload whose dispatch panics the event loop.
PanicPayload == [valid |-> TRUE, method |-> "browser_open", params |-> "href_not_string"]

\* The UI-to-scheduler path beside the event loop: the loop starts, takes
\* the events posted to it, and ends by a close request or a panic.
NextCore ==
    \/ StartInit
    \/ WindowEvent("CloseRequested", PrimaryWindow)
    \/ IpcHandler(PanicPayload, TRUE)
    \/ HandleUserEvent
    \/ \E p \in CallerIds, cmd \in CoreCommands : ContextSend(p, cmd)
    \/ ConsumerForward
    \/ ConsumerDropped

SpecCore == Init /\ [][NextCore]_vars

\* C14: a call of DesktopContext::send(cmd) either leaves cmd at the tail
\* of the UI-to-scheduler channel and returns, or, the channel being full
\* or without a receiver, panics the calling task and leaves the channel as
\* it was; it never returns with cmd not on the channel.
C14_SendPlacesOrPanics ==
    [][\A p \in CallerIds, cmd \in CoreCommands :
         ContextSend(p, cmd)
            => \/ /\ core_channel' = Append(core_channel, cmd)
                  /\ callers'[p] = "running"
               \/ /\ core_closed \/ Len(core_channel) >= CoreCapacity
                  /\ core_channel' = core_channel
                  /\ callers'[p] = "panicked"]_vars

\* C14 witness: one task's send panicked on the full channel, the other's
\* panicked after the receiver was dropped.
C14_Witness ==
    /\ \A p \in CallerIds : callers[p] = "panicked"
    /\ core_closed
    /\ Len(core_channel) = CoreCapacity
    /\ ctx_out.call = "send"
    /\ ~ctx_out.delivered

\* C15: a CoreCommand leaves the UI-to-scheduler channel only from its
\* head and only in a step that posts it, as one BevyUpdate, at the tail of
\* the event loop's queue; so the commands reach the event loop once each
\* and in channel order, none lost on the way.
C15_EveryCommandForwarded ==
    [][Len(core_channel') < Len(core_channel)
         => /\ core_channel' = Tail(core_channel)
            /\ proxy_events' = Append(proxy_events, BevyUpdate(Head(core_channel)))]_vars

\* ------------------------------------------------------ scheduler to UI
\* The receivers currently held for the scheduler-to-UI channel.
receiver_count == Cardinality({s \in SubscriberIds : subscribers[s].on})

\* channel::<UICommand>(8): the channel keeps the newest UiCapacity values.
retain(buffer) ==
    IF Len(buffer) > UiCapacity
    THEN SubSeq(buffer, Len(buffer) - UiCapacity + 1, Len(buffer))
    ELSE buffer

\* tx.send(*e) on the broadcast Sender: Err, and nothing stored, when no
\* receiver exists; otherwise the value is stored.
broadcast_send(buffer, receivers, e) ==
    IF receivers = 0
    THEN [ok |-> FALSE, buffer |-> buffer]
    ELSE [ok |-> TRUE, buffer |-> retain(Append(buffer, e))]

\* The events one tick can hand to dispatch_ui_commands.
TickEventSeqs ==
    UNION {[1 .. n -> UICommands] : n \in 1 .. MaxTick}

\* app.update() runs dispatch_ui_commands: events.iter() over the tick's
\* UICommand events, tx = desktop.sender().
TickStart(events) ==
    /\ tick_events = <<>>
    /\ Len(published) + Len(events) <= MaxPublished
    /\ tick_events' = events
    /\ tick_results' = <<>>
    /\ UNCHANGED << pipeVars, proxy_events, hostPc, control_flow, coreVars, callers,
                    ctx_out, ui_buffer, subscribers, published >>

\* for e in events.iter(): the loop ends when the iterator is exhausted.
loop_done_on_error(results, events) ==
    \/ Len(results) = Len(events)
    \/ results # <<>> /\ ~Last(results)
loop_done(results, events) == Len(results) = Len(events)

\* let _ = tx.send(*e);
TickSend ==
    /\ tick_events # <<>>
    /\ ~loop_done(tick_results, tick_events)
    /\ LET e == tick_events[Len(tick_results) + 1]
           sent == broadcast_send(ui_buffer, receiver_count, e)
       IN /\ ui_buffer' = sent.buffer
          /\ published' = IF sent.ok THEN Append(published, e) ELSE published
          /\ tick_results' = Append(tick_results, sent.ok)
    /\ UNCHANGED << pipeVars, proxy_events, hostPc, control_flow, coreVars, callers,
                    ctx_out, subscribers, tick_events >>

\* dispatch_ui_commands returns.
TickEnd ==
    /\ tick_events # <<>>
    /\ loop_done(tick_results, tick_events)
    /\ tick_events' = <<>>
    /\ tick_results' = <<>>
    /\ UNCHANGED << pipeVars, proxy_events, hostPc, control_flow, coreVars, callers,
                    ctx_out, ui_buffer, subscribers, published >>

\* DesktopContext::receiver(): self.channel.1.clone(), one more handle on
\* the channel's receiving side.
Subscribe(s) ==
    /\ ~subscribers[s].on
    /\ subscribers' = [subscribers EXCEPT
                          ![s] = [on |-> TRUE, joined |-> Len(published), received |-> <<>>]]
    /\ UNCHANGED << pipeVars, proxy_events, hostPc, control_flow, coreVars, callers,
                    ctx_out, ui_buffer, published, tick_events, tick_results >>

\* A receive on handle s. The handles are clones of one
\* futures_intrusive::channel::shared::Receiver: the oldest value is taken
\* out of the channel by the handle that receives it.
Receive(s) ==
    /\ subscribers[s].on
    /\ ui_buffer # <<>>
    /\ subscribers' = [subscribers EXCEPT
                          ![s].received = Append(@, Head(ui_buffer))]
    /\ ui_buffer' = Tail(ui_buffer)
    /\ UNCHANGED << pipeVars, proxy_events, hostPc, control_flow, coreVars, callers,
                    ctx_out, published, tick_events, tick_results >>

NextUi ==
    \/ \E events \in TickEventSeqs : TickStart(events)
    \/ TickSend
    \/ TickEnd
    \/ \E s \in SubscriberIds : Subscribe(s)
    \/ \E s \in SubscriberIds : Receive(s)

SpecUi == Init /\ [][NextUi]_vars

\* What was published since handle s was handed out.
PublishedSince(s) == SubSeq(published, subscribers[s].joined + 1, Len(published))

\* C16: a subscriber that is no more than the channel's capacity behind has
\* received, in publish order, a prefix of what was published since it
\* subscribed, and what it has not yet received is still retained for it,
\* whatever the other subscribers have taken.
C16_EverySubscriberReceivesAll ==
    \A s \in SubscriberIds :
        subscribers[s].on
            /\ Len(PublishedSince(s)) - Len(subscribers[s].received) <= UiCapacity
        => /\ IsPrefix(subscribers[s].received, PublishedSince(s))
           /\ \E k \in 1 .. Len(ui_buffer) + 1 :
                SubSeq(ui_buffer, k, Len(ui_buffer))
                    = SubSeq(PublishedSince(s), Len(subscribers[s].received) + 1,
                             Len(PublishedSince(s)))

\* C17: each send of dispatch_ui_commands hands the broadcast sender the
\* next event of the tick, which is published behind the earlier ones when
\* a receiver exists and dropped, with nothing else changed, when none
\* does; either way the loop goes on, and dispatch_ui_commands returns only
\* after every event of the tick has been handed over.
C17_DispatchForwardsEveryEvent ==
    /\ [][TickSend
            => LET e == tick_events[Len(tick_results) + 1] IN
               /\ Len(tick_results') = Len(tick_results) + 1
               /\ tick_events' = tick_events
               /\ IF receiver_count > 0
                  THEN /\ published' = Append(published, e)
                       /\ ui_buffer' = retain(Append(ui_buffer, e))
                       /\ Last(tick_results')
                  ELSE /\ UNCHANGED << published, ui_buffer >>
                       /\ ~Last(tick_results')]_vars
    /\ [][tick_events # <<>> /\ tick_events' # tick_events
            => /\ tick_events' = <<>>
               /\ Len(tick_results) = Len(tick_events)]_vars

\* C17 witness: the first send of a tick failed for want of a receiver, a
\* receiver was then handed out, and the second event of the tick was
\* published.
C17_Witness ==
    /\ Len(tick_events) = 2
    /\ tick_results = << FALSE, TRUE >>
    /\ published = << tick_events[2] >>
    /\ ui_buffer = << tick_events[2] >>

\* ------------------------------------------------------- window commands
\* The WindowEvent variant each window-management method posts.
window_event(cmd) ==
    CASE cmd = "drag" -> "WindowEvent:DragWindow"
      [] cmd = "set_minimized" -> "WindowEvent:Minimize"
      [] cmd = "set_maximized" -> "WindowEvent:Maximize"
      [] cmd = "toggle_maximized" -> "WindowEvent:MaximizeToggle"
      [] cmd = "set_visible" -> "WindowEvent:Visible"
      [] cmd = "close" -> "WindowEvent:CloseWindow"
      [] cmd = "focus" -> "WindowEvent:FocusWindow"
      [] cmd = "set_fullscreen" -> "WindowEvent:Fullscreen"
      [] cmd = "set_resizable" -> "WindowEvent:Resizable"
      [] cmd = "set_always_on_top" -> "WindowEvent:AlwaysOnTop"
      [] cmd = "set_cursor_visible" -> "WindowEvent:CursorVisible"
      [] cmd = "set_cursor_grab" -> "WindowEvent:CursorGrab"
      [] cmd = "set_title" -> "WindowEvent:SetTitle"
      [] cmd = "set_decorations" -> "WindowEvent:SetDecorations"
      [] cmd = "devtool" -> "WindowEvent:DevTool"
      [] cmd = "eval" -> "WindowEvent:Eval"

\* let _ = self.proxy.send_event(..): the Result is dropped and the method
\* returns.
result_unwrapped(ok) == IF ok THEN "running" ELSE "panicked"
result_dropped(ok) == "running"

\* One of the window-management methods of DesktopContext, called by UI
\* task p.
WindowCommand(p, cmd) ==
    /\ callers[p] = "running"
    /\ Alive => Len(proxy_events) < MaxPosted
    /\ proxy_events' = send_event(proxy_events, Alive, window_event(cmd))
    /\ callers' = [callers EXCEPT ![p] = result_dropped(Alive)]
    /\ ctx_out' = [call |-> cmd, by |-> p, arg |-> "", delivered |-> Alive]
    /\ UNCHANGED << pipeVars, hostPc, control_flow, coreVars, uiVars >>

\* The UI tasks using their DesktopContext beside the event loop, which
\* starts, takes the events posted to it and ends by a close request.
NextWindow ==
    \/ StartInit
    \/ WindowEvent("CloseRequested", PrimaryWindow)
    \/ HandleUserEvent
    \/ \E p \in CallerIds, cmd \in WindowCommands : WindowCommand(p, cmd)

SpecWindow == Init /\ [][NextWindow]_vars

\* C18: a window-management command posts its one window event at the tail
\* of the event loop's queue, or nothing when the event loop is gone; in
\* both cases the calling task goes on, and neither the CoreCommand channel
\* nor the UICommand channel is touched.
C18_WindowCommandFireAndForget ==
    [][LET cmd == ctx_out'.call
           p == ctx_out'.by
       IN cmd \in WindowCommands /\ WindowCommand(p, cmd)
            => /\ proxy_events' = IF Alive
                                  THEN Append(proxy_events, window_event(cmd))
                                  ELSE proxy_events
               /\ callers' = callers
               /\ callers'[p] = "running"
               /\ UNCHANGED << coreVars, uiVars >>]_vars

\* C18 witness: with the event loop gone and events it never took still
\* posted, a window command was called, delivered nothing, and its caller
\* still runs.
C18_Witness ==
    /\ hostPc = "exited"
    /\ ctx_out.call \in WindowCommands
    /\ ~ctx_out.delivered
    /\ callers[ctx_out.by] = "running"
    /\ Len(proxy_events) = MaxPosted

\* C19: the renderer arrives at its wait for work only by posting one
\* Update wake, once after the initial render and once at the end of each
\* work cycle, and at that moment every batch it has produced is pushed and
\* none is left in hand; no other step of the renderer posts anything; and
\* every batch pushed is followed by the renderer posting a wake.
C19_OneWakeAfterPushes ==
    /\ [][rendPc # "wait" /\ rendPc' = "wait"
            => /\ rendPc \in {"send_rebuild", "send"}
               /\ proxy_events' = Append(proxy_events, "Update")
               /\ Len(pushed) = produced
               /\ muts = <<>>
               /\ rend_edit = None]_vars
    /\ [][rendVars' # rendVars /\ rendPc' # "wait"
            => proxy_events' = proxy_events]_vars
    /\ \A b \in BatchIds :
         (b \in Range(pushed)) ~> (b \in Range(pushed) /\ rendPc = "wait")

\* C19 witness: the renderer waits for work after two work cycles, one of
\* which pushed two batches, with every batch it produced pushed.
C19_Witness ==
    /\ rendPc = "wait"
    /\ cycles = 2
    /\ produced = 3
    /\ Len(pushed) = 3

\* C20: whenever the event loop is inside a call of evaluate_script it does
\* not hold the lock of the Mutation Queue, so a push of the renderer never
\* waits for a script evaluation.
C20_NoLockAcrossEvaluate == hostPc = "eval" => lock # "host"

\* C21: the Mutation Queue holds the batches in the order the renderer
\* computed them (batch i is the i-th the renderer produced, and
\* work_with_deadline returns a cycle's batches in computed order): the
\* batches of one cycle lie in the queue as b1..bk, behind everything
\* enqueued before the cycle.
C21_CycleBatchesQueuedInComputedOrder ==
    \A i, j \in 1 .. Len(QueueBatches) :
        i < j => QueueBatches[i] < QueueBatches[j]

\* C22: the renderer holds the lock of the Mutation Queue only inside a
\* push statement, never while it renders, waits for work or computes a
\* cycle's batches; it gives the lock back, and the event loop's attempt to
\* take the lock for an apply cycle is granted.
C22_RendererNeverSuspendsWithLock ==
    /\ [](lock = "renderer" <=> rendPc \in {"push_rebuild", "push"})
    /\ (lock = "renderer") ~> (lock # "renderer")
    /\ (hostPc = "lock") ~> (lock = "host")

\* C22 witness: the event loop is about to take the lock for an apply
\* cycle while the renderer holds it inside a push of a work cycle.
C22_Witness ==
    /\ hostPc = "lock"
    /\ lock = "renderer"
    /\ rendPc = "push"

InApplyCycle == hostPc \in {"lock", "pop", "eval"} \/ lock = "host"

\* C24: no wake-up is lost: whenever the gate is Ready, the queue is not
\* empty and the host is not inside an apply cycle, an Update wake is pending
\* in the event loop's queue or the renderer has pushed a batch and has yet
\* to post the Update wake that ends that render or work cycle.
C24_NoWakeLost ==
    is_ready /\ pending_edits # <<>> /\ ~InApplyCycle
        => "Update" \in Range(proxy_events) \/ wake_owed

\* The gate is Ready, the host waits for events, batches are queued, no wake
\* is pending, and the renderer, two batches of its work cycle pushed, has
\* the wake of the cycle still to post.
C24_Witness ==
    /\ is_ready
    /\ hostPc = "idle"
    /\ Len(pending_edits) >= 2
    /\ proxy_events = <<>>
    /\ wake_owed
    /\ rendPc = "send"

====
